---- MODULE Spec2Model ----
(***************************************************************************)
(* Resume screening pipeline: text extraction (embeddings.py), vector      *)
(* store construction (embeddings.py), ranking (ranker.py), narration      *)
(* (summarizer.py) and the Streamlit driver (app.py).                      *)
(*                                                                         *)
(* A function outcome is a record [exc, value]: exc = TRUE means the call  *)
(* left by an exception, and a caller without a handler passes it on.      *)
(* Distances are the numbers the index reports; the model draws them from  *)
(* 0..MaxDist, so that 1 - distance is positive, zero and negative.        *)
(***************************************************************************)
EXTENDS Integers, Sequences, FiniteSets, TLC

VARIABLES
    folder,               \* temp_resumes on disk: file name -> what the entry holds
    pc,                   \* position of the driver
    jd,                   \* the job description of the current run / call
    top_k,                \* the top_k argument of rank_resumes
    docs,                 \* documents returned by get_documents_from_folder
    vector_store,         \* the FAISS store: sequence of chunks; <<>> before it is built
    results_with_scores,  \* what similarity_search_with_score returned to a direct call
                          \* of rank_resumes (a local of it: the driver never sees it)
    ranked_candidates,    \* what rank_resumes returned
    results_list,         \* rows of the results table
    ui,                   \* what the page shows, in order
    calls,                \* the pipeline functions called in this run, in order
    ret                   \* how the most recent pipeline function call ended

vars == <<folder, pc, jd, top_k, docs, vector_store, results_with_scores,
          ranked_candidates, results_list, ui, calls, ret>>

\* ------------------------------------------------------------------ bounds
MaxDist == 2
MaxTopK == 3
MaxChunks == 3

\* --------------------------------------------------------------- constants
AppTopK == 10

\* ------------------------------------------------------------- the inputs
\* A file name is <<stem, extension>>.
PdfName == <<"a", ".pdf">>
DocxName == <<"b", ".docx">>
TxtName == <<"c", ".txt">>
SubDir == <<"sub", "">>
Names == {PdfName, DocxName, TxtName, SubDir}
UploadNames == {PdfName, DocxName}

\* What a directory entry holds. "corrupt": the parser raises on it; "": a
\* document with no text; " ": whitespace only; "short": text of one chunk;
\* "long": text of two chunks.
Contents == {"corrupt", "", " ", "short", "long"}
Absent == "absent"
Dir == "dir"

Folders ==
    { f \in [Names -> Contents \cup {Absent, Dir}] :
        /\ f[PdfName] # Dir
        /\ f[DocxName] # Dir
        /\ f[TxtName] \in {Absent, "short"}
        /\ f[SubDir] \in {Absent, Dir} }

Uploads == [UploadNames -> Contents \cup {Absent}]

JobDescriptions == {"", "jd"}

\* ---------------------------------------------------------------- helpers
Min(a, b) == IF a <= b THEN a ELSE b

Range(s) == { s[n] : n \in 1..Len(s) }

Return(v) == [exc |-> FALSE, value |-> v]
Raise == [exc |-> TRUE, value |-> <<>>]

Orders(S) ==
    { s \in [1..Cardinality(S) -> S] : \A a, b \in 1..Cardinality(S) : a # b => s[a] # s[b] }

endswith(name, suffix) == name[2] = suffix

NoCall == [fn |-> "none", exc |-> FALSE, failed |-> FALSE]

\* ---------------------------------------------------------- embeddings.py
\* The parsers (fitz / python-docx) on a file's bytes.
Parse(content) == IF content = "corrupt" THEN Raise ELSE Return(content)

\* extract_text_from_file without its except clause.
extract_text_uncaught(name, content) ==
    IF endswith(name, ".pdf") THEN Parse(content)
    ELSE IF endswith(name, ".docx") THEN Parse(content)
    ELSE Return("")

extract_text_from_file(name, content) ==
    LET body == IF endswith(name, ".pdf") THEN Parse(content)
                ELSE IF endswith(name, ".docx") THEN Parse(content)
                ELSE Return("")
    IN  IF body.exc THEN Return("") ELSE body

Document(text, filename) == [page_content |-> text, source |-> filename]

RECURSIVE documents_loop(_, _, _)
documents_loop(f, listing, documents) ==
    IF listing = <<>> THEN Return(documents)
    ELSE LET filename == Head(listing)
         IN  IF f[filename] # Dir
             THEN LET text == extract_text_from_file(filename, f[filename])
                  IN  IF text.exc THEN Raise
                      ELSE IF text.value # ""
                      THEN documents_loop(f, Tail(listing),
                               Append(documents, Document(text.value, filename)))
                      ELSE documents_loop(f, Tail(listing), documents)
             ELSE documents_loop(f, Tail(listing), documents)

get_documents_from_folder(f, listing) == documents_loop(f, listing, <<>>)

\* RecursiveCharacterTextSplitter(chunk_size=1000, chunk_overlap=200): the
\* number of chunks a text gives; whitespace-only text gives none.
NumChunks(text) ==
    IF text = "long" THEN 2 ELSE IF text = "short" THEN 1 ELSE 0

RECURSIVE split_documents(_)
split_documents(documents) ==
    IF documents = <<>> THEN <<>>
    ELSE [n \in 1..NumChunks(Head(documents).page_content) |-> Head(documents).source]
         \o split_documents(Tail(documents))

\* FAISS.from_documents: embeds every chunk; dists[n] is the distance of chunk
\* n to the job description. An empty chunk list or a failing embedder raises,
\* and create_vector_store re-raises.
create_vector_store(documents, embedder_ok, dists) ==
    LET split == split_documents(documents)
    IN  IF ~embedder_ok \/ split = <<>> THEN Raise
        ELSE Return([n \in 1..Len(split) |->
                        [source |-> split[n], content |-> n, dist |-> dists[n]]])

\* -------------------------------------------------------------- ranker.py
\* similarity_search_with_score(job_description, k): the min(k, n) nearest
\* chunks with their distances; the order of the returned list is left open.
SearchResults(vs, k) ==
    LET n == Len(vs)
        m == Min(k, n)
    IN  { [p \in 1..m |-> <<vs[r[p]], vs[r[p]].dist>>] :
            r \in { q \in [1..m -> 1..n] :
                      /\ \A a, b \in 1..m : a # b => q[a] # q[b]
                      /\ \A a \in 1..m : \A c \in 1..n :
                            (\A b \in 1..m : q[b] # c) => vs[c].dist >= vs[q[a]].dist } }

\* candidate_info keeping the distance as the score.
candidate_info_raw(doc, score) ==
    [source |-> doc.source, score |-> score, content |-> doc.content]

candidate_info(doc, score) ==
    [source |-> doc.source, score |-> 1 - score, content |-> doc.content]

\* list.sort(key=score, reverse=True): stable, descending.
insert_desc(sorted, c) ==
    LET n == Cardinality({ j \in 1..Len(sorted) : sorted[j].score >= c.score })
    IN  SubSeq(sorted, 1, n) \o <<c>> \o SubSeq(sorted, n + 1, Len(sorted))

RECURSIVE sort_loop(_, _)
sort_loop(sorted, rest) ==
    IF rest = <<>> THEN sorted
    ELSE sort_loop(insert_desc(sorted, Head(rest)), Tail(rest))

\* rank_resumes without its sort.
sort_skipped(candidates) == candidates

sort_by_score(candidates) == sort_loop(<<>>, candidates)

\* search is the outcome of similarity_search_with_score: Raise, or Return of
\* the list it gave.
rank_resumes(job_description, search) ==
    IF job_description = "" THEN Return(<<>>)
    ELSE IF search.exc THEN Return(<<>>)
    ELSE Return(sort_by_score(
             [n \in 1..Len(search.value) |->
                 candidate_info(search.value[n][1], search.value[n][2])]))

SearchOutcomes(vs, k) == {Raise} \cup { Return(r) : r \in SearchResults(vs, k) }

\* ---------------------------------------------------------- summarizer.py
LlmInitError == "Could not generate summary due to LLM initialization error."
LlmInvokeError == "Error generating summary."
LlmText == "summary"
LlmOutcomes == {"ok", "init_fails", "invoke_raises"}

get_llm(llm) == IF llm = "init_fails" THEN Return("None") ELSE Return("llm")

\* generate_summary without the try around chain.invoke.
generate_summary_uncaught(candidate, job_description, llm) ==
    IF get_llm(llm).value = "None" THEN Return(LlmInitError)
    ELSE IF llm = "invoke_raises" THEN Raise
    ELSE Return(LlmText)

generate_summary(candidate, job_description, llm) ==
    IF get_llm(llm).value = "None" THEN Return(LlmInitError)
    ELSE IF llm = "invoke_raises" THEN Return(LlmInvokeError)
    ELSE Return(LlmText)

\* ------------------------------------------------------------------ app.py
ErrNoJobDescription == "error: Please provide a job description."
ErrNoUploads == "error: Please upload at least one resume."
ErrNoResumes == "error: No resumes found or could not extract text. Please check the folder."
ErrVectorStore == "error: Failed to create vector store"
WarnNoCandidates == "warning: Could not rank any candidates."
Success == "success: Successfully ranked candidates!"
Traceback == "exception"
Metric == "metric: Estimated Time Saved (minutes)"
DownloadButton == "download_button: Download Results as CSV"

\* f"{score:.2f}" of a whole number.
Format2f(score) == [whole |-> score, hundredths |-> 0]

save_uploaded_files(f, uploaded) ==
    [name \in Names |->
        IF name \in UploadNames /\ uploaded[name] # Absent THEN uploaded[name] ELSE f[name]]

ResetRun ==
    /\ docs' = <<>>
    /\ vector_store' = <<>>
    /\ results_with_scores' = <<>>
    /\ ranked_candidates' = <<>>
    /\ results_list' = <<>>
    /\ calls' = <<>>
    /\ ret' = NoCall

\* The "Screen Resumes" button pressed on a fresh page.
ScreenResumes ==
    /\ pc = "idle"
    /\ \E jd_text \in JobDescriptions, uploaded \in Uploads :
         /\ jd' = jd_text
         /\ ResetRun
         /\ IF jd_text = ""
            THEN /\ ui' = <<ErrNoJobDescription>>
                 /\ pc' = "done"
                 /\ UNCHANGED folder
            ELSE IF \A name \in UploadNames : uploaded[name] = Absent
            THEN /\ ui' = <<ErrNoUploads>>
                 /\ pc' = "done"
                 /\ UNCHANGED folder
            ELSE /\ folder' = save_uploaded_files(folder, uploaded)
                 /\ ui' = <<>>
                 /\ pc' = "extract"
    /\ UNCHANGED top_k

\* Extract without the return after "No resumes found".
ExtractNoReturn ==
    /\ pc = "extract"
    /\ \E listing \in Orders({ name \in Names : folder[name] # Absent }) :
         LET out == get_documents_from_folder(folder, listing)
         IN  /\ calls' = Append(calls, "get_documents_from_folder")
             /\ ret' = [fn |-> "get_documents_from_folder", exc |-> out.exc, failed |-> FALSE]
             /\ docs' = out.value
             /\ IF out.exc
                THEN ui' = Append(ui, Traceback) /\ pc' = "done"
                ELSE IF out.value = <<>>
                THEN ui' = Append(ui, ErrNoResumes) /\ pc' = "build"
                ELSE ui' = ui /\ pc' = "build"
    /\ UNCHANGED <<folder, jd, top_k, vector_store, results_with_scores,
                   ranked_candidates, results_list>>

Extract ==
    /\ pc = "extract"
    /\ \E listing \in Orders({ name \in Names : folder[name] # Absent }) :
         LET out == get_documents_from_folder(folder, listing)
         IN  /\ calls' = Append(calls, "get_documents_from_folder")
             /\ ret' = [fn |-> "get_documents_from_folder", exc |-> out.exc, failed |-> FALSE]
             /\ docs' = out.value
             /\ IF out.exc
                THEN ui' = Append(ui, Traceback) /\ pc' = "done"
                ELSE IF out.value = <<>>
                THEN ui' = Append(ui, ErrNoResumes) /\ pc' = "done"
                ELSE ui' = ui /\ pc' = "build"
    /\ UNCHANGED <<folder, jd, top_k, vector_store, results_with_scores,
                   ranked_candidates, results_list>>

\* Build without the return after "Failed to create vector store".
BuildNoReturn ==
    /\ pc = "build"
    /\ \E embedder_ok \in BOOLEAN :
       \E dists \in [1..Len(split_documents(docs)) -> 0..MaxDist] :
         LET out == create_vector_store(docs, embedder_ok, dists)
         IN  /\ embedder_ok \/ \A n \in DOMAIN dists : dists[n] = 0
             /\ calls' = Append(calls, "create_vector_store")
             /\ ret' = [fn |-> "create_vector_store", exc |-> out.exc, failed |-> ~embedder_ok]
             /\ vector_store' = out.value
             /\ IF out.exc
                THEN ui' = Append(ui, ErrVectorStore) /\ pc' = "rank"
                ELSE ui' = ui /\ pc' = "rank"
    /\ UNCHANGED <<folder, jd, top_k, docs, results_with_scores,
                   ranked_candidates, results_list>>

Build ==
    /\ pc = "build"
    /\ \E embedder_ok \in BOOLEAN :
       \E dists \in [1..Len(split_documents(docs)) -> 0..MaxDist] :
         LET out == create_vector_store(docs, embedder_ok, dists)
         IN  \* no distances come back from an embedder that failed
             /\ embedder_ok \/ \A n \in DOMAIN dists : dists[n] = 0
             /\ calls' = Append(calls, "create_vector_store")
             /\ ret' = [fn |-> "create_vector_store", exc |-> out.exc, failed |-> ~embedder_ok]
             /\ vector_store' = out.value
             /\ IF out.exc
                THEN ui' = Append(ui, ErrVectorStore) /\ pc' = "done"
                ELSE ui' = ui /\ pc' = "rank"
    /\ UNCHANGED <<folder, jd, top_k, docs, results_with_scores,
                   ranked_candidates, results_list>>

Rank ==
    /\ pc = "rank"
    /\ \E search \in SearchOutcomes(vector_store, AppTopK) :
         LET out == rank_resumes(jd, search)
         IN  /\ calls' = Append(calls, "rank_resumes")
             /\ ret' = [fn |-> "rank_resumes", exc |-> out.exc, failed |-> search.exc]
             /\ ranked_candidates' = out.value
             /\ IF out.exc
                THEN ui' = Append(ui, Traceback) /\ pc' = "done"
                ELSE IF out.value = <<>>
                THEN ui' = Append(ui, WarnNoCandidates) /\ pc' = "done"
                ELSE ui' = Append(ui, Success) /\ pc' = "narrate"
    /\ UNCHANGED <<folder, jd, top_k, docs, vector_store, results_with_scores,
                   results_list>>

Narrate ==
    /\ pc = "narrate"
    /\ Len(results_list) < Len(ranked_candidates)
    /\ \E llm \in LlmOutcomes :
         LET i == Len(results_list)
             candidate == ranked_candidates[i + 1]
             out == generate_summary(candidate, jd, llm)
         IN  /\ calls' = Append(calls, "generate_summary")
             /\ ret' = [fn |-> "generate_summary", exc |-> out.exc, failed |-> llm # "ok"]
             /\ IF out.exc
                THEN /\ ui' = Append(ui, Traceback)
                     /\ pc' = "done"
                     /\ UNCHANGED results_list
                ELSE /\ results_list' = Append(results_list,
                            [Rank |-> i + 1,
                             File |-> candidate.source,
                             Score |-> Format2f(candidate.score),
                             Summary |-> out.value])
                     /\ UNCHANGED <<ui, pc>>
    /\ UNCHANGED <<folder, jd, top_k, docs, vector_store, results_with_scores,
                   ranked_candidates>>

Export ==
    /\ pc = "narrate"
    /\ Len(results_list) = Len(ranked_candidates)
    /\ ui' = ui \o <<Metric, DownloadButton>>
    /\ pc' = "done"
    /\ UNCHANGED <<folder, jd, top_k, docs, vector_store, results_with_scores,
                   ranked_candidates, results_list, calls, ret>>

\* Any other interaction with the page reruns the script with the button not
\* pressed: the page is drawn afresh and nothing of the last run is kept but
\* the files on disk.
Rerun ==
    /\ pc = "done"
    /\ pc' = "idle"
    /\ ui' = <<>>
    /\ jd' = ""
    /\ ResetRun
    /\ UNCHANGED <<folder, top_k>>

Init ==
    /\ folder \in Folders
    /\ pc = "idle"
    /\ jd = ""
    /\ top_k = AppTopK
    /\ docs = <<>>
    /\ vector_store = <<>>
    /\ results_with_scores = <<>>
    /\ ranked_candidates = <<>>
    /\ results_list = <<>>
    /\ ui = <<>>
    /\ calls = <<>>
    /\ ret = NoCall

Next == ScreenResumes \/ Extract \/ Build \/ Rank \/ Narrate \/ Export \/ Rerun

Spec == Init /\ [][Next]_vars

\* ------------------------------------------- rank_resumes called directly
Sources == {PdfName, DocxName}

Stores ==
    UNION { { [n \in 1..len |-> [source |-> s[n], content |-> n, dist |-> d[n]]] :
                s \in [1..len -> Sources], d \in [1..len -> 0..MaxDist] } :
            len \in 1..MaxChunks }

CallRank ==
    /\ pc = "call"
    /\ \E search \in SearchOutcomes(vector_store, top_k) :
         LET out == rank_resumes(jd, search)
             searched == jd # ""
         IN  /\ calls' = Append(calls, "rank_resumes")
             /\ ret' = [fn |-> "rank_resumes", exc |-> out.exc,
                        failed |-> searched /\ search.exc]
             /\ results_with_scores' = IF searched THEN search.value ELSE <<>>
             /\ ranked_candidates' = out.value
             /\ pc' = "returned"
    /\ UNCHANGED <<folder, jd, top_k, docs, vector_store, results_list, ui>>

InitRank ==
    /\ folder = [name \in Names |-> Absent]
    /\ pc = "call"
    /\ jd \in JobDescriptions
    /\ top_k \in 1..MaxTopK
    /\ docs = <<>>
    /\ vector_store \in Stores
    /\ results_with_scores = <<>>
    /\ ranked_candidates = <<>>
    /\ results_list = <<>>
    /\ ui = <<>>
    /\ calls = <<>>
    /\ ret = NoCall

NextRank == CallRank

SpecRank == InitRank /\ [][NextRank]_vars

\* ------------------------------------------------------------ properties
Returned == pc = "returned"
Searched == Returned /\ jd # "" /\ ~ret.failed

Last(s) == s[Len(s)]

\* The files of the folder whose extraction gives non-empty text.
HasText(name) ==
    /\ name[2] \in {".pdf", ".docx"}
    /\ folder[name] \in {" ", "short", "long"}

Extracted == calls # <<>>

\* C1: the list rank_resumes returns holds at most one entry per source, and
\* the entry kept for a source is its retrieved chunk of lowest distance.
C1_PerSourceUnique ==
    Returned =>
        /\ \A a, b \in 1..Len(ranked_candidates) :
              a # b => ranked_candidates[a].source # ranked_candidates[b].source
        /\ \A a \in 1..Len(ranked_candidates) : \A b \in 1..Len(results_with_scores) :
              results_with_scores[b][1].source = ranked_candidates[a].source
                  => 1 - results_with_scores[b][2] <= ranked_candidates[a].score

\* C2: adjacent entries of the list rank_resumes returns have
\* score[i] >= score[i+1], whatever order the index returned the chunks in.
C2_RankingOrder ==
    \A n \in 1..(Len(ranked_candidates) - 1) :
        ranked_candidates[n].score >= ranked_candidates[n + 1].score

\* C2 witness: the index returned a farther chunk before a nearer one.
C2_Witness ==
    /\ Searched
    /\ Len(ranked_candidates) >= 3
    /\ \E n \in 1..(Len(results_with_scores) - 1) :
          results_with_scores[n][2] > results_with_scores[n + 1][2]

\* C3: rank_resumes called with an empty job description ends in an error,
\* never in a returned list.
C3_EmptyQueryFails == Returned /\ jd = "" => ret.exc

\* C4: against a store of at least top_k chunks, rank_resumes returns exactly
\* min(top_k, number of distinct sources) entries.
C4_DistinctCandidates ==
    Searched /\ Len(vector_store) >= top_k =>
        Len(ranked_candidates)
            = Min(top_k, Cardinality({ vector_store[n].source : n \in 1..Len(vector_store) }))

\* C5: a failure of the embedder or the index inside create_vector_store or
\* rank_resumes leaves the call as an error, never as a returned value.
C5_FailureReachesCaller ==
    ret.fn \in {"create_vector_store", "rank_resumes"} /\ ret.failed => ret.exc

\* C6: a failed narration gives a fixed fallback string instead of raising,
\* and every run that reached narration ends with a row for every ranked
\* candidate.
C6_NarrationFallback ==
    /\ ret.fn = "generate_summary" /\ ret.failed =>
          /\ ~ret.exc
          /\ Traceback \notin Range(ui)
          /\ results_list # <<>>
          /\ Last(results_list).Summary \in {LlmInitError, LlmInvokeError}
    /\ ret.fn = "generate_summary" /\ ~ret.failed =>
          /\ results_list # <<>>
          /\ Last(results_list).Summary = LlmText
    /\ pc = "done" /\ ret.fn = "generate_summary" =>
          /\ DownloadButton \in Range(ui)
          /\ Len(results_list) = Len(ranked_candidates)
          /\ \A n \in 1..Len(results_list) :
                results_list[n].File = ranked_candidates[n].source

\* C6 witness: a finished run in which a narration failed and a later
\* candidate was still narrated.
C6_Witness ==
    /\ pc = "done"
    /\ DownloadButton \in Range(ui)
    /\ \E a, b \in 1..Len(results_list) :
          /\ a < b
          /\ results_list[a].Summary = LlmInvokeError
          /\ results_list[b].Summary = LlmText

\* C7: extraction never raises; unsupported and unreadable files are skipped,
\* and the documents are exactly one per file with non-empty text, each with
\* its file name as source and its text as content.
C7_ExtractionRecovers ==
    Extracted =>
        /\ ret.fn = "get_documents_from_folder" => ~ret.exc
        /\ Len(docs) = Cardinality({ name \in Names : HasText(name) })
        /\ \A name \in Names :
              HasText(name) =>
                  \E n \in 1..Len(docs) :
                      docs[n] = [page_content |-> folder[name], source |-> name]
        /\ \A n \in 1..Len(docs) : HasText(docs[n].source)

\* C7 witness: a folder with an unsupported file, an unreadable file and a
\* readable one, after extraction.
C7_Witness ==
    /\ Extracted
    /\ folder[TxtName] = "short"
    /\ folder[PdfName] = "corrupt"
    /\ folder[DocxName] = "long"
    /\ Len(docs) = 1

\* C8: when no file of the folder gives text, the run shows the no-resumes
\* error and nothing else: no store, no ranking, no rows.
C8_NoResumes ==
    Extracted /\ (\A name \in Names : ~HasText(name)) =>
        /\ pc = "done"
        /\ ui = <<ErrNoResumes>>
        /\ calls = <<"get_documents_from_folder">>
        /\ docs = <<>>
        /\ vector_store = <<>>
        /\ ranked_candidates = <<>>
        /\ results_list = <<>>

\* C8 witness: every file of the folder is unsupported or unreadable.
C8_Witness ==
    /\ pc = "done"
    /\ ui = <<ErrNoResumes>>
    /\ folder[TxtName] = "short"
    /\ folder[PdfName] = "corrupt"
    /\ folder[DocxName] = "corrupt"

\* C9: every returned entry has score = 1 - distance of its chunk, and every
\* retrieved chunk is returned, the ones of negative score included.
C9_ScoreTransform ==
    Searched =>
        /\ Len(ranked_candidates) = Len(results_with_scores)
        /\ \A n \in 1..Len(ranked_candidates) :
              LET entry == ranked_candidates[n]
              IN  /\ entry.content \in 1..Len(vector_store)
                  /\ entry.source = vector_store[entry.content].source
                  /\ entry.score = 1 - vector_store[entry.content].dist
        /\ \A n \in 1..Len(results_with_scores) :
              \E m \in 1..Len(ranked_candidates) :
                  /\ ranked_candidates[m].content = results_with_scores[n][1].content
                  /\ ranked_candidates[m].score = 1 - results_with_scores[n][2]

\* C9 witness: a chunk at distance greater than 1 is returned, last, with a
\* negative score.
C9_Witness ==
    /\ Searched
    /\ Len(ranked_candidates) >= 2
    /\ ranked_candidates[1].score > 0
    /\ Last(ranked_candidates).score < 0

\* C10: the stages run in the order extract, build, rank, narrate, each only
\* after the earlier ones succeeded; a run that reports no documents, a build
\* failure or an empty ranking runs no later stage and exports nothing; a run
\* that narrates calls generate_summary once per candidate, in rank order,
\* and row i (from 0) has Rank i+1.
StageAt(n) ==
    IF n = 1 THEN "get_documents_from_folder"
    ELSE IF n = 2 THEN "create_vector_store"
    ELSE IF n = 3 THEN "rank_resumes"
    ELSE "generate_summary"

Stopped(n) ==
    /\ pc = "done"
    /\ Len(calls) = n
    /\ results_list = <<>>
    /\ DownloadButton \notin Range(ui)
    /\ Success \notin Range(ui)

C10_StageGating ==
    /\ \A n \in 1..Len(calls) : calls[n] = StageAt(n)
    /\ Len(calls) >= 2 => docs # <<>>
    /\ Len(calls) >= 3 => vector_store # <<>>
    /\ Len(calls) >= 4 => ranked_candidates # <<>>
    /\ ErrNoResumes \in Range(ui) => Stopped(1)
    /\ ErrVectorStore \in Range(ui) => Stopped(2)
    /\ WarnNoCandidates \in Range(ui) => Stopped(3)
    /\ pc = "narrate" => Len(calls) = 3 + Len(results_list)
    /\ Len(results_list) <= Len(ranked_candidates)
    /\ \A n \in 1..Len(results_list) :
          /\ results_list[n].Rank = n
          /\ results_list[n].File = ranked_candidates[n].source
          /\ results_list[n].Score = Format2f(ranked_candidates[n].score)
    /\ DownloadButton \in Range(ui) =>
          /\ Len(calls) = 3 + Len(ranked_candidates)
          /\ Len(results_list) = Len(ranked_candidates)

\* C10 witness: a run that narrated three candidates and exported.
C10_Witness ==
    /\ pc = "done"
    /\ DownloadButton \in Range(ui)
    /\ Len(results_list) = 3
    /\ Len(calls) = 6

====
